---- MODULE Spec2Model ----
(***************************************************************************)
(* Maneuver risk pipeline of maneuver_sims:                                *)
(*   maneuver_covariance.update_covariance_with_vector                     *)
(*   maneuver_orbit.calculate_delta_r                                      *)
(*   maneuver_risk.compute_collision_probability, compute_risk             *)
(*                                                                         *)
(* Numbers.  The program computes in IEEE 754 doubles (Python float,       *)
(* numpy float64), and so does the model: a double is a record             *)
(* [s, m, e] of value s * m * 2^e with sign s in {-1, 0, 1} and a 53 bit   *)
(* significand m, and +, -, *, /, sqrt and the fused multiply-add round to *)
(* nearest, ties to even.  A significand does not fit the integers of the  *)
(* model checker, so it is a sequence of 15 bit limbs.  Not modelled: the  *)
(* sign of zero, subnormals, overflow to infinity; no value of the model   *)
(* comes near the exponent range.                                          *)
(*                                                                         *)
(* Three library calls are not arithmetic of the program itself.  Every    *)
(* x ** 2 is a call of pow of the C library, which may round a square near *)
(* the midpoint of two doubles either way, each call on its own.           *)
(* np.linalg.inv is LAPACK's LU factorisation with partial pivoting and    *)
(* its triangular solves; the order of its operations depends on the       *)
(* LAPACK the interpreter is linked with.  The variable lapack records the *)
(* LAPACK a call ran on, libm the rounding of each ** 2 of the call.       *)
(* scipy's ncx2.cdf is kept symbolic.                                      *)
(***************************************************************************)
EXTENDS Integers, Sequences, FiniteSets, TLC

VARIABLES pc, fn, args, ret, lapack, libm

vars == <<pc, fn, args, ret, lapack, libm>>

(***************************************************************************)
(* Bounds of the model.                                                    *)
(***************************************************************************)
\* delta-V vectors of update_covariance_with_vector: k * direction, k in 0..MaxDv
MaxDv == 2
\* semi-major axes of direct calculate_delta_r calls: 0..MaxA m, 2000 km, 7000 km
MaxA == 2
\* scalar delta_v of direct calculate_delta_r calls: k / 4, k in -MaxDeltaV..MaxDeltaV
MaxDeltaV == 10
\* burns of compute_risk: 20 * k * direction m/s, k in 0..MaxBurn
MaxBurn == 2

(***************************************************************************)
(* Natural numbers of any size: little-endian sequences of limbs in        *)
(* 0..Base-1 without a leading zero limb; <<>> is 0.                       *)
(***************************************************************************)
Base == 2^15

Abs(n) == IF n < 0 THEN -n ELSE n

RECURSIVE BTrim(_)
BTrim(x) ==
    IF x = <<>> THEN x
    ELSE IF x[Len(x)] = 0 THEN BTrim(SubSeq(x, 1, Len(x) - 1)) ELSE x

BLimb(x, i) == IF i <= Len(x) THEN x[i] ELSE 0

\* the natural number n < 2^31
BN(n) == BTrim(<<n % Base, (n \div Base) % Base, n \div (Base * Base)>>)

RECURSIVE BAddFrom(_, _, _, _)
BAddStep(x, y, i, s) == <<s % Base>> \o BAddFrom(x, y, i + 1, s \div Base)
BAddFrom(x, y, i, c) ==
    IF i > Len(x) /\ i > Len(y) THEN (IF c = 0 THEN <<>> ELSE <<c>>)
    ELSE BAddStep(x, y, i, BLimb(x, i) + BLimb(y, i) + c)
BAdd(x, y) == BAddFrom(x, y, 1, 0)

\* x - y for x >= y
RECURSIVE BSubFrom(_, _, _, _)
BSubStep(x, y, i, d) ==
    IF d < 0 THEN <<d + Base>> \o BSubFrom(x, y, i + 1, 1)
    ELSE <<d>> \o BSubFrom(x, y, i + 1, 0)
BSubFrom(x, y, i, b) ==
    IF i > Len(x) THEN <<>> ELSE BSubStep(x, y, i, x[i] - BLimb(y, i) - b)
BSub(x, y) == BTrim(BSubFrom(x, y, 1, 0))

\* -1, 0, 1 as x <, =, > y
RECURSIVE BCmpAt(_, _, _)
BCmpAt(x, y, i) ==
    IF i = 0 THEN 0
    ELSE IF x[i] # y[i] THEN (IF x[i] < y[i] THEN -1 ELSE 1)
    ELSE BCmpAt(x, y, i - 1)
BCmp(x, y) ==
    IF Len(x) # Len(y) THEN (IF Len(x) < Len(y) THEN -1 ELSE 1)
    ELSE BCmpAt(x, y, Len(x))

\* x * k for a limb k
RECURSIVE BMulSmallFrom(_, _, _, _)
BMulSmallStep(x, k, i, p) == <<p % Base>> \o BMulSmallFrom(x, k, i + 1, p \div Base)
BMulSmallFrom(x, k, i, c) ==
    IF i > Len(x) THEN (IF c = 0 THEN <<>> ELSE <<c>>)
    ELSE BMulSmallStep(x, k, i, x[i] * k + c)
BMulSmall(x, k) == BMulSmallFrom(x, k, 1, 0)

RECURSIVE BMulFrom(_, _, _)
BMulFrom(x, y, j) ==
    IF j > Len(y) THEN <<>>
    ELSE BAddFrom(BMulSmallFrom(x, y[j], 1, 0), <<0>> \o BMulFrom(x, y, j + 1), 1, 0)
BMul(x, y) == BTrim(BMulFrom(x, y, 1))

RECURSIVE Zeros(_)
Zeros(n) == IF n = 0 THEN <<>> ELSE <<0>> \o Zeros(n - 1)

\* x * 2^k
BShl(x, k) ==
    IF x = <<>> THEN x ELSE Zeros(k \div 15) \o BMulSmallFrom(x, 2^(k % 15), 1, 0)

\* x \div 2^k
RECURSIVE BShrFrom(_, _, _)
BShrFrom(x, r, i) ==
    IF i > Len(x) THEN <<>>
    ELSE <<(x[i] \div 2^r) + (BLimb(x, i + 1) % 2^r) * 2^(15 - r)>> \o BShrFrom(x, r, i + 1)
BShr(x, k) == BTrim(BShrFrom(x, k % 15, k \div 15 + 1))

\* the k low bits of x are zero
BLowZero(x, k) ==
    /\ \A i \in 1..(k \div 15) : BLimb(x, i) = 0
    /\ BLimb(x, k \div 15 + 1) % 2^(k % 15) = 0

\* bit k of x, bit 0 the lowest
BBit(x, k) == (BLimb(x, k \div 15 + 1) \div 2^(k % 15)) % 2

RECURSIVE IntBitLen(_)
IntBitLen(n) == IF n = 0 THEN 0 ELSE 1 + IntBitLen(n \div 2)
BBitLen(x) == IF x = <<>> THEN 0 ELSE 15 * (Len(x) - 1) + IntBitLen(x[Len(x)])

(***************************************************************************)
(* IEEE 754 binary64, round to nearest, ties to even.                      *)
(***************************************************************************)
\* bits of a significand: 52 stored and the hidden one
Precision == 52 + 1

FZero == [s |-> 0, m |-> <<>>, e |-> 0]
Mk(s, m, e) == [s |-> s, m |-> m, e |-> e]

\* N is cut by sh bits; sticky says that the exact value lies above N
RoundUp(N, sh, sticky) ==
    BBit(N, sh - 1) = 1 /\ (sticky \/ ~BLowZero(N, sh - 1) \/ BBit(N, sh) = 1)
Carry(s, q, e) == IF BBitLen(q) > Precision THEN Mk(s, BShr(q, 1), e + 1) ELSE Mk(s, q, e)
PackAt(s, N, e, sticky, L) ==
    IF L <= Precision THEN Mk(s, BShl(N, Precision - L), e - (Precision - L))
    ELSE IF RoundUp(N, L - Precision, sticky)
         THEN Carry(s, BAdd(BShr(N, L - Precision), <<1>>), e + L - Precision)
         ELSE Mk(s, BShr(N, L - Precision), e + L - Precision)

\* the double nearest s * (N + t) * 2^e, where 0 < t < 1 if sticky else t = 0;
\* a sticky N has more than Precision bits
FPack(s, N, e, sticky) == IF N = <<>> THEN FZero ELSE PackAt(s, N, e, sticky, BBitLen(N))

\* the double of an integer, |n| < 2^31
F(n) == IF n = 0 THEN FZero ELSE FPack(IF n < 0 THEN -1 ELSE 1, BN(Abs(n)), 0, FALSE)

FNeg(x) == Mk(-x.s, x.m, x.e)
FAbs(x) == Mk(Abs(x.s), x.m, x.e)

FMul(x, y) ==
    IF x.s = 0 \/ y.s = 0 THEN FZero
    ELSE FPack(x.s * y.s, BMul(x.m, y.m), x.e + y.e, FALSE)

\* s1 * X1 * 2^e + s2 * X2 * 2^e, c = BCmp(X1, X2)
SumOrdered(s1, X1, s2, X2, e, c) ==
    IF s1 = s2 THEN FPack(s1, BAdd(X1, X2), e, FALSE)
    ELSE IF c = 0 THEN FZero
    ELSE IF c > 0 THEN FPack(s1, BSub(X1, X2), e, FALSE)
    ELSE FPack(s2, BSub(X2, X1), e, FALSE)
SumAligned(s1, X1, s2, X2, e) == SumOrdered(s1, X1, s2, X2, e, BCmp(X1, X2))
\* the other term lies more than 20 bits below the last bit of N1
Dominated(s1, N1, e1, s2) ==
    IF s1 = s2 THEN FPack(s1, BShl(N1, 3), e1 - 3, TRUE)
    ELSE FPack(s1, BSub(BShl(N1, 3), <<1>>), e1 - 3, TRUE)
\* the double nearest s1 * N1 * 2^e1 + s2 * N2 * 2^e2; N1 and N2 have between
\* Precision and 2 * Precision bits
Sum(s1, N1, e1, s2, N2, e2) ==
    IF e1 >= e2
    THEN IF e1 - e2 > 130 THEN Dominated(s1, N1, e1, s2)
         ELSE SumAligned(s1, BShl(N1, e1 - e2), s2, N2, e2)
    ELSE IF e2 - e1 > 130 THEN Dominated(s2, N2, e2, s1)
         ELSE SumAligned(s1, N1, s2, BShl(N2, e2 - e1), e1)

FAdd(x, y) ==
    IF x.s = 0 THEN y ELSE IF y.s = 0 THEN x
    ELSE Sum(x.s, x.m, x.e, y.s, y.m, y.e)
FSub(x, y) == FAdd(x, FNeg(y))

\* fma(a, b, c): a * b + c rounded once
FMA(a, b, c) ==
    IF a.s = 0 \/ b.s = 0 THEN c
    ELSE IF c.s = 0 THEN FMul(a, b)
    ELSE Sum(a.s * b.s, BMul(a.m, b.m), a.e + b.e, c.s, c.m, c.e)

\* long division by limbs: the next digit of the quotient is estimated from
\* the two top limbs of the remainder and the top limb of the divisor, which
\* never underestimates it, and corrected downwards
RECURSIVE Correct(_, _, _, _)
Correct(R, D, q, P) ==
    IF BCmp(P, R) > 0 THEN Correct(R, D, q - 1, BSub(P, D)) ELSE <<q, BSub(R, P)>>
Estimate(top2, d) == IF top2 \div d >= Base THEN Base - 1 ELSE top2 \div d
DigitAt(R, D, q) == Correct(R, D, q, BMulSmall(D, q))
Digit(R, D) ==
    IF BCmp(R, D) < 0 THEN <<0, R>>
    ELSE DigitAt(R, D, Estimate(BLimb(R, Len(D) + 1) * Base + R[Len(D)], D[Len(D)]))
RECURSIVE LongDivision(_, _, _, _, _)
LongStep(N, D, i, Q, qr) == LongDivision(N, D, i - 1, <<qr[1]>> \o Q, qr[2])
LongDivision(N, D, i, Q, R) ==
    IF i = 0 THEN <<BTrim(Q), R>>
    ELSE LongStep(N, D, i, Q, Digit(BTrim(<<N[i]>> \o R), D))
\* <<N \div D, N % D * 2^k>> for D # 0, with D shifted by k bits to fill its
\* top limb
Normalise(D) == 15 - IntBitLen(D[Len(D)])
BDivShifted(N, D) == LongDivision(N, D, Len(N), <<>>, <<>>)
BDivMod(N, D) == BDivShifted(BShl(N, Normalise(D)), BShl(D, Normalise(D)))

DivPack(s, qr, e) == FPack(s, qr[1], e, qr[2] # <<>>)

\* x / y for y # 0: a quotient of 55 or 56 bits, and whether it is exact
FDiv(x, y) ==
    IF x.s = 0 THEN FZero
    ELSE DivPack(x.s * y.s, BDivMod(BShl(x.m, 55), y.m), x.e - y.e - 55)

\* the integer square root of n < 2^30, bit by bit from 2^b down
RECURSIVE IntSqrtFrom(_, _, _)
IntSqrtFrom(n, r, b) ==
    IF b < 0 THEN r
    ELSE IF (r + 2^b) * (r + 2^b) <= n THEN IntSqrtFrom(n, r + 2^b, b - 1)
    ELSE IntSqrtFrom(n, r, b - 1)
IntSqrt(n) == IntSqrtFrom(n, 0, 14)

\* the integer square root of N by Newton's iteration from above
RECURSIVE Newton(_, _)
NewtonNext(N, x, y) == IF BCmp(y, x) >= 0 THEN x ELSE Newton(N, y)
Newton(N, x) == NewtonNext(N, x, BShr(BAdd(x, BDivMod(N, x)[1]), 1))
\* a first guess above the root of N, 2^106 <= N < 2^108, from its top 28 bits
FirstGuess(top) == BShl(BN(IntSqrt(BLimb(top, 1) + BLimb(top, 2) * Base) + 1), 40)
BSqrt(N) == Newton(N, FirstGuess(BShr(N, 80)))
SqrtPack(N, root, e) == FPack(1, root, e, BCmp(BMul(root, root), N) # 0)
SqrtShift(x) == IF x.e % 2 = 0 THEN 54 ELSE 55

\* sqrt(x) for x >= 0: a root of 54 bits, and whether it is exact
FSqrt(x) ==
    IF x.s = 0 THEN FZero
    ELSE SqrtPack(BShl(x.m, SqrtShift(x)), BSqrt(BShl(x.m, SqrtShift(x))),
                  (x.e - SqrtShift(x)) \div 2)

MagCmp(x, y) == IF x.e # y.e THEN (IF x.e < y.e THEN -1 ELSE 1) ELSE BCmp(x.m, y.m)
\* -1, 0, 1 as x <, =, > y
FCmp(x, y) ==
    IF x.s # y.s THEN (IF x.s < y.s THEN -1 ELSE 1)
    ELSE IF x.s = 0 THEN 0 ELSE x.s * MagCmp(x, y)
FLt(x, y) == FCmp(x, y) < 0
FLe(x, y) == FCmp(x, y) <= 0

(***************************************************************************)
(* Vectors and matrices of doubles: tuples, a matrix a tuple of rows.      *)
(***************************************************************************)
Vec(x, y, z) == <<F(x), F(y), F(z)>>
VNeg(u) == <<FNeg(u[1]), FNeg(u[2]), FNeg(u[3])>>
VAdd(u, w) == <<FAdd(u[1], w[1]), FAdd(u[2], w[2]), FAdd(u[3], w[3])>>
VSub(u, w) == <<FSub(u[1], w[1]), FSub(u[2], w[2]), FSub(u[3], w[3])>>
VScale(c, u) == <<FMul(c, u[1]), FMul(c, u[2]), FMul(c, u[3])>>
VDiv(u, c) == <<FDiv(u[1], c), FDiv(u[2], c), FDiv(u[3], c)>>
Transpose(a) ==
    <<<<a[1][1], a[2][1], a[3][1]>>, <<a[1][2], a[2][2], a[3][2]>>,
      <<a[1][3], a[2][3], a[3][3]>>>>
MAdd(a, b) == <<VAdd(a[1], b[1]), VAdd(a[2], b[2]), VAdd(a[3], b[3])>>
MSub(a, b) == <<VSub(a[1], b[1]), VSub(a[2], b[2]), VSub(a[3], b[3])>>
MScale(c, a) == <<VScale(c, a[1]), VScale(c, a[2]), VScale(c, a[3])>>
\* np.outer(u, w)
Outer(u, w) == <<VScale(u[1], w), VScale(u[2], w), VScale(u[3], w)>>
\* u.dot(w), summed in the order of the elements
Dot(u, w) == FAdd(FAdd(FMul(u[1], w[1]), FMul(u[2], w[2])), FMul(u[3], w[3]))
\* the four 3x3 blocks of a 6x6 matrix
BlockPos(m) == <<SubSeq(m[1], 1, 3), SubSeq(m[2], 1, 3), SubSeq(m[3], 1, 3)>>
BlockCross(m) == <<SubSeq(m[1], 4, 6), SubSeq(m[2], 4, 6), SubSeq(m[3], 4, 6)>>
BlockLower(m) == <<SubSeq(m[4], 1, 3), SubSeq(m[5], 1, 3), SubSeq(m[6], 1, 3)>>
BlockVel(m) == <<SubSeq(m[4], 4, 6), SubSeq(m[5], 4, 6), SubSeq(m[6], 4, 6)>>
IntRow(r) == <<F(r[1]), F(r[2]), F(r[3])>>
IntMat(m) == <<IntRow(m[1]), IntRow(m[2]), IntRow(m[3])>>

\* the value of an expression that is computed once and then used: the one
\* element of { body(v) : v \in {value} }
TheOne(S) == CHOOSE v \in S : TRUE

\* ldexp(x, k): x * 2^k, exact
FScale2(x, k) == IF x.s = 0 THEN x ELSE Mk(x.s, x.m, x.e + k)
\* x ** 2 is pow(x, 2.0) of the C library, one call for every ** 2 that is
\* executed, each rounded on its own.  pow is not correctly rounded: glibc
\* documents an error of up to 0.54 ulp, so where the exact square lies
\* within 1/16 ulp of the midpoint of two doubles a call returns either of
\* them (away = TRUE: the one that is not the nearest), elsewhere the
\* nearest.
Discarded4(N, sh) == BLimb(BShr(N, sh - 4), 1) % 16
NearTie(N, sh) == Discarded4(N, sh) \in {7, 8}
Neighbour(nearest, down, up) == IF nearest = down THEN up ELSE down
OtherSquare(x, N, sh) ==
    Neighbour(FMul(x, x), Mk(1, BShr(N, sh), 2 * x.e + sh),
              Carry(1, BAdd(BShr(N, sh), <<1>>), 2 * x.e + sh))
SquareOf(away, x, N, sh) ==
    IF away /\ NearTie(N, sh) THEN OtherSquare(x, N, sh) ELSE FMul(x, x)
SquareFrom(away, x, N) == SquareOf(away, x, N, BBitLen(N) - Precision)
Pow2(away, x) == IF x.s = 0 THEN FZero ELSE SquareFrom(away, x, BMul(x.m, x.m))
\* the roundings a call of pow(x, 2.0) can take
NearTieSquare(x) ==
    x.s # 0 /\ NearTie(BMul(x.m, x.m), BBitLen(BMul(x.m, x.m)) - Precision)
Rounding(x) == IF NearTieSquare(x) THEN BOOLEAN ELSE {FALSE}
\* a ** 2 that the call does not execute
NotCalled == {FALSE}
\* the norm with the sign of the first nonzero component
FirstSign(x) ==
    IF x[1].s # 0 THEN x[1].s ELSE IF x[2].s # 0 THEN x[2].s ELSE x[3].s
NormSigned(x) == IF FirstSign(x) < 0 THEN FNeg(FSqrt(Dot(x, x))) ELSE FSqrt(Dot(x, x))

\* np.linalg.norm of a vector: sqrt(x.dot(x))
norm(x) == FSqrt(Dot(x, x))

(***************************************************************************)
(* maneuver_covariance.update_covariance_with_vector                       *)
(***************************************************************************)
\* the literals 0.05 and 0.1: the doubles nearest 1/20 and 1/10
velocity_uncertainty_scale == FDiv(F(1), F(20))
coupling_factor == FDiv(F(1), F(10))

delta_v_unit(delta_v_vector, delta_v_magnitude) ==
    IF FLt(FZero, delta_v_magnitude)
    THEN VDiv(delta_v_vector, delta_v_magnitude)
    ELSE <<FZero, FZero, FZero>>

\* (scale**2 * magnitude**2) * np.outer(unit, unit)
ProcessNoise(delta_v_magnitude, unit, clib) ==
    MScale(FMul(Pow2(clib.scale, velocity_uncertainty_scale),
                Pow2(clib.magnitude, delta_v_magnitude)),
           Outer(unit, unit))
NoiseAt(delta_v_vector, delta_v_magnitude, clib) ==
    TheOne({ProcessNoise(delta_v_magnitude, unit, clib) :
               unit \in {delta_v_unit(delta_v_vector, delta_v_magnitude)}})

\* the process noise without the factor magnitude**2
Q_velocity_unscaled(delta_v_vector, clib) ==
    TheOne({MScale(Pow2(clib.scale, velocity_uncertainty_scale), Outer(unit, unit)) :
               unit \in {delta_v_unit(delta_v_vector, norm(delta_v_vector))}})

Q_velocity(delta_v_vector, clib) ==
    TheOne({NoiseAt(delta_v_vector, delta_v_magnitude, clib) :
               delta_v_magnitude \in {norm(delta_v_vector)}})

(***************************************************************************)
(* numpy arrays.  The memory is the sequence of the buffers allocated so   *)
(* far.  An ndarray is a window on one buffer: the array that owns the     *)
(* buffer ("whole"), or a basic slice m[:3, :3], m[:3, 3:], m[3:, :3],     *)
(* m[3:, 3:] or a transpose m.T of it, which are views and share the       *)
(* buffer.  Arithmetic on arrays, np.zeros, np.array and np.linalg.inv     *)
(* return an array on a new buffer; an assignment to a slice writes        *)
(* through the window into the buffer of the sliced array.                 *)
(***************************************************************************)
Whole(base) == [base |-> base, window |-> "whole"]
\* a slice or transpose of a whole array
View(array, window) == [base |-> array.base, window |-> window]
\* a 6x6 buffer of the four 3x3 blocks
AssembleRows(pos, cross, lower, vel) ==
    <<pos[1] \o cross[1], pos[2] \o cross[2], pos[3] \o cross[3],
      lower[1] \o vel[1], lower[2] \o vel[2], lower[3] \o vel[3]>>
Window(buffer, window) ==
    CASE window = "whole" -> buffer
      [] window = "position" -> BlockPos(buffer)
      [] window = "cross" -> BlockCross(buffer)
      [] window = "lower" -> BlockLower(buffer)
      [] window = "velocity" -> BlockVel(buffer)
      [] window = "transposed" -> Transpose(buffer)
Read(memory, array) == Window(memory[array.base], array.window)
Through(buffer, window, value) ==
    CASE window = "whole" -> value
      [] window = "position" ->
            AssembleRows(value, BlockCross(buffer), BlockLower(buffer), BlockVel(buffer))
      [] window = "cross" ->
            AssembleRows(BlockPos(buffer), value, BlockLower(buffer), BlockVel(buffer))
      [] window = "lower" ->
            AssembleRows(BlockPos(buffer), BlockCross(buffer), value, BlockVel(buffer))
      [] window = "velocity" ->
            AssembleRows(BlockPos(buffer), BlockCross(buffer), BlockLower(buffer), value)
      [] window = "transposed" -> Transpose(value)
Write(memory, array, value) ==
    [memory EXCEPT ![array.base] = Through(@, array.window, value)]
Allocate(memory, value) == Append(memory, value)
\* the array lies in a buffer of the memory
Owned(memory, array) == array.base \in 1..Len(memory)

\* the frame of a call of update_covariance_with_vector: the memory, and the
\* arrays its names are bound to (Whole(0): not bound yet)
CovarianceFrame(memory, cov_matrix, delta_v_vector) ==
    [memory |-> memory, cov_matrix |-> cov_matrix, delta_v_vector |-> delta_v_vector,
     Q_velocity |-> Whole(0),
     P_velocity |-> Whole(0), P_velocity_updated |-> Whole(0),
     P_cross |-> Whole(0), P_cross_updated |-> Whole(0),
     P_position |-> Whole(0), P_position_updated |-> Whole(0),
     updated_cov_matrix |-> Whole(0)]

\* lines 25-33: the process noise, a new array
NoiseLine(f, clib) ==
    [f EXCEPT !.memory = Allocate(@, Q_velocity(Read(f.memory, f.delta_v_vector), clib)),
              !.Q_velocity = Whole(Len(f.memory) + 1)]

\* lines 35-36: a view of the caller's matrix, and a sum, which is a new array
P_velocity_updated(P_velocity, Q) == MAdd(P_velocity, Q)
VelocityLines(f) ==
    [f EXCEPT !.P_velocity = View(f.cov_matrix, "velocity"),
              !.memory = Allocate(@, P_velocity_updated(
                                         Read(f.memory, View(f.cov_matrix, "velocity")),
                                         Read(f.memory, f.Q_velocity))),
              !.P_velocity_updated = Whole(Len(f.memory) + 1)]

\* lines 39-41
P_cross_updated(P_cross, Q) == MAdd(P_cross, MScale(coupling_factor, Q))
CrossLines(f) ==
    [f EXCEPT !.P_cross = View(f.cov_matrix, "cross"),
              !.memory = Allocate(@, P_cross_updated(
                                         Read(f.memory, View(f.cov_matrix, "cross")),
                                         Read(f.memory, f.Q_velocity))),
              !.P_cross_updated = Whole(Len(f.memory) + 1)]

\* the position block left as it was
P_position_uncoupled(P_position, Q) == P_position

\* lines 44-45
P_position_updated(P_position, Q) == MAdd(P_position, MScale(coupling_factor, Q))
PositionLines(f) ==
    [f EXCEPT !.P_position = View(f.cov_matrix, "position"),
              !.memory = Allocate(@, P_position_updated(
                                         Read(f.memory, View(f.cov_matrix, "position")),
                                         Read(f.memory, f.Q_velocity))),
              !.P_position_updated = Whole(Len(f.memory) + 1)]

\* the result bound to the caller's matrix instead of a new one
np_zeros_aliased(f) == [f EXCEPT !.updated_cov_matrix = f.cov_matrix]

\* line 48: np.zeros((6, 6)), a new array
np_zeros(f) ==
    [f EXCEPT !.memory = Allocate(@, [i \in 1..6 |-> [j \in 1..6 |-> FZero]]),
              !.updated_cov_matrix = Whole(Len(f.memory) + 1)]
\* lines 49-52: assignments to slices of updated_cov_matrix
SetPosition(f) ==
    [f EXCEPT !.memory = Write(@, View(f.updated_cov_matrix, "position"),
                               Read(f.memory, f.P_position_updated))]
SetVelocity(f) ==
    [f EXCEPT !.memory = Write(@, View(f.updated_cov_matrix, "velocity"),
                               Read(f.memory, f.P_velocity_updated))]
SetCross(f) ==
    [f EXCEPT !.memory = Write(@, View(f.updated_cov_matrix, "cross"),
                               Read(f.memory, f.P_cross_updated))]
SetLowerAsIs(f) ==
    [f EXCEPT !.memory = Write(@, View(f.updated_cov_matrix, "lower"),
                               Read(f.memory, f.P_cross_updated))]
SetLower(f) ==
    [f EXCEPT !.memory = Write(@, View(f.updated_cov_matrix, "lower"),
                               Read(f.memory, View(f.P_cross_updated, "transposed")))]

\* the lower-left block filled with the cross block as it is
AssembleNoTranspose(f) ==
    TheOne({SetLowerAsIs(f4) : f4 \in {SetCross(f3) : f3 \in {SetVelocity(f2) :
               f2 \in {SetPosition(f1) : f1 \in {np_zeros(f)}}}}})

\* lines 48-52
Assemble(f) ==
    TheOne({SetLower(f4) : f4 \in {SetCross(f3) : f3 \in {SetVelocity(f2) :
               f2 \in {SetPosition(f1) : f1 \in {np_zeros(f)}}}}})

\* lines 25-52 of a call on two arrays of the memory: the frame at the return
update_covariance_with_vector_call(memory, cov_matrix, delta_v_vector, clib) ==
    TheOne({Assemble(f4) : f4 \in {PositionLines(f3) : f3 \in {CrossLines(f2) :
               f2 \in {VelocityLines(f1) :
                  f1 \in {NoiseLine(CovarianceFrame(memory, cov_matrix, delta_v_vector),
                                    clib)}}}}})

\* a call by a caller that holds the two arrays: the returned matrix, the
\* two arguments as the call leaves them in the caller's memory, and
\* whether the returned matrix lies in a buffer the caller did not hold
update_covariance_with_vector(cov_matrix, delta_v_vector, clib) ==
    TheOne({[ret |-> Read(f.memory, f.updated_cov_matrix),
             cov_matrix |-> Read(f.memory, Whole(1)),
             delta_v_vector |-> Read(f.memory, Whole(2)),
             fresh |-> ~Owned(<<cov_matrix, delta_v_vector>>, f.updated_cov_matrix)] :
               f \in {update_covariance_with_vector_call(<<cov_matrix, delta_v_vector>>,
                                                         Whole(1), Whole(2), clib)}})

(***************************************************************************)
(* maneuver_orbit.calculate_delta_r                                        *)
(***************************************************************************)
\* 3.986004418e14, an integer below 2^53
mu_default == FMul(F(1993002209), F(200000))
\* the literal 0.5
half == FDiv(F(1), F(2))

v_new_reversed(v, delta_v) == FSub(v, delta_v)

v_new(v, delta_v) == FAdd(v, delta_v)

E_new_no_half(vn, mu, a, clib) == FSub(Pow2(clib.speed, vn), FDiv(mu, a))

E_new(vn, mu, a, clib) == FSub(FMul(half, Pow2(clib.speed, vn)), FDiv(mu, a))

a_new(mu, E) == FDiv(FNeg(mu), FMul(F(2), E))

\* an exception leaving calculate_delta_r at the given line
Raises(error, line) == [kind |-> error, line |-> line, delta_r |-> FZero, a_new |-> FZero]
Returns(a, anew) == [kind |-> "ok", line |-> 36, delta_r |-> FSub(anew, a), a_new |-> anew]

\* lines 32-36; Python raises on the float division by zero
FromEnergy(a, mu, E) ==
    IF E.s = 0 THEN Raises("ZeroDivisionError", 32) ELSE Returns(a, a_new(mu, E))
\* lines 23-28, ratio = mu / a; math.sqrt raises on a negative number
FromSpeed(a, delta_v, mu, v, clib) ==
    FromEnergy(a, mu, E_new(v_new(v, delta_v), mu, a, clib))
FromRatio(a, delta_v, mu, ratio, clib) ==
    IF ratio.s < 0 THEN Raises("ValueError", 23)
    ELSE TheOne({FromSpeed(a, delta_v, mu, v, clib) : v \in {FSqrt(ratio)}})

calculate_delta_r(a, delta_v, mu, clib) ==
    IF a.s = 0 THEN Raises("ZeroDivisionError", 23)
    ELSE FromRatio(a, delta_v, mu, FDiv(mu, a), clib)

(***************************************************************************)
(* np.linalg.inv: LAPACK dgesv on the matrix and the identity.  dgetrf     *)
(* factors with partial pivoting, row by row of the augmented matrix       *)
(* <<a1, a2, a3, b1, b2, b3, a3 as given>>; dgetrs solves the two          *)
(* triangular systems.  dgetrf scales a column by the reciprocal of the    *)
(* pivot.  A LAPACK build rounds c - x * y once (fma) or twice, updates    *)
(* the last pivot one rank at a time or by one dot product (dot), and      *)
(* divides by the diagonal in the triangular solve or multiplies by its    *)
(* reciprocal (recip).  The products d.T @ inv @ d run on the BLAS of the  *)
(* same build.                                                             *)
(***************************************************************************)
LapackBuilds == [fma : BOOLEAN, recip : BOOLEAN, dot : BOOLEAN]

MulSub(build, c, x, y) ==
    IF build.fma THEN FMA(FNeg(x), y, c) ELSE FSub(c, FMul(x, y))
Multiplier(x, pivot) == FMul(x, FDiv(F(1), pivot))
ByDiagonal(build, x, pivot) ==
    IF build.recip THEN FMul(x, FDiv(F(1), pivot)) ELSE FDiv(x, pivot)

Augmented(m) ==
    <<m[1] \o <<F(1), FZero, FZero, m[1][3]>>,
      m[2] \o <<FZero, F(1), FZero, m[2][3]>>,
      m[3] \o <<FZero, FZero, F(1), m[3][3]>>>>

\* idamax: the first entry of largest magnitude
AbsGe(x, y) == FLe(FAbs(y), FAbs(x))
idamax2(x, y) == IF AbsGe(x, y) THEN 1 ELSE 2
idamax3(x, y, z) ==
    IF AbsGe(x, y) /\ AbsGe(x, z) THEN 1 ELSE IF AbsGe(y, z) THEN 2 ELSE 3
Swap3(rows, p) ==
    IF p = 1 THEN rows
    ELSE IF p = 2 THEN <<rows[2], rows[1], rows[3]>>
    ELSE <<rows[3], rows[2], rows[1]>>

\* a row below the first pivot row: its multiplier l, and the rest less
\* l times the pivot row
Elim1(build, row, top, l) ==
    <<l, MulSub(build, row[2], l, top[2]), MulSub(build, row[3], l, top[3]),
      MulSub(build, row[4], l, top[4]), MulSub(build, row[5], l, top[5]),
      MulSub(build, row[6], l, top[6]), row[7]>>

\* the last pivot: a33 - (l31 * u13 + l32 * u23) by a dot product, or the
\* rank-one update of the entry left by the first column
U33(build, low, mid, top, l) ==
    IF build.dot
    THEN IF build.fma
         THEN FSub(low[7], FMA(l, mid[3], FMul(low[1], top[3])))
         ELSE FSub(low[7], FAdd(FMul(low[1], top[3]), FMul(l, mid[3])))
    ELSE MulSub(build, low[3], l, mid[3])
Elim2(build, low, mid, top, l) ==
    <<low[1], l, U33(build, low, mid, top, l),
      MulSub(build, low[4], l, mid[4]), MulSub(build, low[5], l, mid[5]),
      MulSub(build, low[6], l, mid[6]), low[7]>>

\* info = k > 0: pivot k is exactly zero
Factored(info, top, mid, low) == [info |-> info, rows |-> <<top, mid, low>>]
Column3(top, mid, low) == Factored(IF low[3].s = 0 THEN 3 ELSE 0, top, mid, low)
Pivot2(build, top, mid, low) ==
    IF mid[2].s = 0 THEN Factored(2, top, mid, low)
    ELSE Column3(top, mid, Elim2(build, low, mid, top, Multiplier(low[2], mid[2])))
Column2(build, top, r2, r3) ==
    IF idamax2(r2[2], r3[2]) = 1 THEN Pivot2(build, top, r2, r3)
    ELSE Pivot2(build, top, r3, r2)
Pivot1(build, rows) ==
    IF rows[1][1].s = 0 THEN Factored(1, rows[1], rows[2], rows[3])
    ELSE Column2(build, rows[1],
                 Elim1(build, rows[2], rows[1], Multiplier(rows[2][1], rows[1][1])),
                 Elim1(build, rows[3], rows[1], Multiplier(rows[3][1], rows[1][1])))
Column1(build, rows) ==
    Pivot1(build, Swap3(rows, idamax3(rows[1][1], rows[2][1], rows[3][1])))
dgetrf(build, m) == Column1(build, Augmented(m))

\* np.linalg.inv raises LinAlgError("Singular matrix") when dgesv reports a
\* zero pivot
LinAlgError(lu) == lu.info > 0

\* back substitution for the right-hand side in column c of the rows
BackSolve1(build, f, c, x3, x2) ==
    <<ByDiagonal(build, MulSub(build, MulSub(build, f[1][c], x3, f[1][3]), x2, f[1][2]),
                 f[1][1]),
      x2, x3>>
BackSolve2(build, f, c, x3) ==
    TheOne({BackSolve1(build, f, c, x3, x2) :
               x2 \in {ByDiagonal(build, MulSub(build, f[2][c], x3, f[2][3]), f[2][2])}})
BackSolve(build, f, c) ==
    TheOne({BackSolve2(build, f, c, x3) : x3 \in {ByDiagonal(build, f[3][c], f[3][3])}})
dgetrs(build, f) ==
    Transpose(<<BackSolve(build, f, 4), BackSolve(build, f, 5), BackSolve(build, f, 6)>>)

(***************************************************************************)
(* maneuver_risk                                                           *)
(***************************************************************************)
\* a probability: the 1.0 of the fallback, ncx2.cdf(x, df, nc) of a
\* noncentrality nc >= 0, the nan scipy returns for nc < 0, or the cdf of a
\* noncentrality that is not a finite number
One == [kind |-> "one", x |-> FZero, df |-> 0, nc |-> FZero]
NotANumber == [kind |-> "nan", x |-> FZero, df |-> 0, nc |-> FZero]
NonFinite == [kind |-> "nonfinite", x |-> FZero, df |-> 0, nc |-> FZero]
Raised(error) == [kind |-> error, x |-> FZero, df |-> 0, nc |-> FZero]

ncx2_cdf(x, df, nc) ==
    IF nc.s < 0 THEN NotANumber ELSE [kind |-> "cdf", x |-> x, df |-> df, nc |-> nc]

\* the dot product of the build's BLAS
BlasDot(build, u, w) ==
    IF build.fma THEN FMA(u[3], w[3], FMA(u[2], w[2], FMul(u[1], w[1]))) ELSE Dot(u, w)
\* (d.T @ inv_P_rel) @ d
VecMat(build, d, m) ==
    <<BlasDot(build, d, <<m[1][1], m[2][1], m[3][1]>>),
      BlasDot(build, d, <<m[1][2], m[2][2], m[3][2]>>),
      BlasDot(build, d, <<m[1][3], m[2][3], m[3][3]>>)>>
lambda_param(build, d, inv_P_rel) == BlasDot(build, VecMat(build, d, inv_P_rel), d)

PR(d, inv_P_rel, collision_radius, build, clib) ==
    ncx2_cdf(Pow2(clib.radius, collision_radius), 3, lambda_param(build, d, inv_P_rel))

\* lines 22-27: np.linalg.inv returns a new array, or raises and 1.0 is
\* returned
Inverted(memory, d, lu, collision_radius, build, clib) ==
    IF LinAlgError(lu) THEN [memory |-> memory, ret |-> One]
    ELSE TheOne({[memory |-> m,
                  ret |-> PR(Read(m, d), Read(m, Whole(Len(m))), collision_radius, build, clib)] :
                    m \in {Allocate(memory, dgetrs(build, lu.rows))}})

\* a call on two arrays of the memory: the memory at the return and the
\* returned probability.  build: the LAPACK behind np.linalg.inv; clib: the
\* rounding of each ** 2
compute_collision_probability_call(memory, relative_position, cov_rel, collision_radius, build, clib) ==
    TheOne({Inverted(memory, relative_position, lu, collision_radius, build, clib) :
               lu \in {dgetrf(build, Read(memory, cov_rel))}})

\* the probability returned to a caller that holds the two arrays
compute_collision_probability(relative_position, cov_rel, collision_radius, build, clib) ==
    compute_collision_probability_call(<<relative_position, cov_rel>>, Whole(1), Whole(2),
                                       collision_radius, build, clib).ret

collision_radius_default == 10

\* line 46 hands calculate_delta_r a numpy float64, whose division by zero
\* at line 32 of the orbit model gives an infinity instead of raising
InfiniteRadius(cov_rel, build) ==
    IF LinAlgError(dgetrf(build, cov_rel)) THEN One ELSE NonFinite

\* lines 48-51: np.array([delta_r, 0, 0]) is a new array, cov_rel the slice
\* updated_cov_matrix[:3, :3]
updated_risk(memory, orbit, cov_rel, build, clib) ==
    IF orbit.kind = "ok"
    THEN TheOne({compute_collision_probability_call(m, Whole(Len(m)), cov_rel,
                                                    F(collision_radius_default), build, clib) :
                    m \in {Allocate(memory, <<orbit.delta_r, FZero, FZero>>)}})
    ELSE IF orbit.line = 32
         THEN [memory |-> memory, ret |-> InfiniteRadius(Read(memory, cov_rel), build)]
    ELSE [memory |-> memory, ret |-> Raised(orbit.kind)]

\* the returned product updated_risk * original_risk, the factors kept
\* apart, and whether the matrix of line 44 lies in a buffer that the
\* memory of the call did not hold
RiskReturn(original_risk, risk, fresh) ==
    [prob |-> risk.ret, times |-> original_risk, fresh |-> fresh]

\* lines 49-53 in the frame f that line 44 returned
RiskCall(memory, original_risk, f, orbit, build, clib) ==
    TheOne({[memory |-> risk.memory,
             ret |-> RiskReturn(original_risk, risk, ~Owned(memory, f.updated_cov_matrix))] :
               risk \in {updated_risk(f.memory, orbit, View(f.updated_cov_matrix, "position"),
                                      build, clib)}})
\* line 46 on the arguments as line 44 leaves them
RadiusAfter(f, initial_r, clib) ==
    TheOne({calculate_delta_r(initial_r, delta_v, mu_default, clib) :
               delta_v \in {norm(Read(f.memory, f.delta_v_vector))}})
RiskAfter(memory, original_risk, f, initial_r, build, clib) ==
    TheOne({RiskCall(memory, original_risk, f, orbit, build, clib) :
               orbit \in {RadiusAfter(f, initial_r, clib)}})

\* lines 44-53 of a call on two arrays of the memory: the memory at the
\* return and the returned value
compute_risk_call(memory, original_risk, delta_v_vector, initial_cov_matrix, initial_r, build, clib) ==
    TheOne({RiskAfter(memory, original_risk, f, initial_r, build, clib) :
               f \in {update_covariance_with_vector_call(memory, initial_cov_matrix,
                                                         delta_v_vector, clib)}})

\* a call by a caller that holds the two arrays: the return value, and the
\* two array arguments as the call leaves them in the caller's memory
compute_risk(original_risk, delta_v_vector, initial_cov_matrix, initial_r, build, clib) ==
    TheOne({[ret |-> r.ret,
             delta_v_vector |-> Read(r.memory, Whole(1)),
             initial_cov_matrix |-> Read(r.memory, Whole(2))] :
               r \in {compute_risk_call(<<delta_v_vector, initial_cov_matrix>>, original_risk,
                                        Whole(1), Whole(2), initial_r, build, clib)}})

(***************************************************************************)
(* The ** 2 a call executes, and the roundings the C library can give each *)
(***************************************************************************)
Libm(scale, magnitude, speed, radius) ==
    [scale : scale, magnitude : magnitude, speed : speed, radius : radius]
\* covariance line 33: velocity_uncertainty_scale ** 2, delta_v_magnitude ** 2
CovarianceLibms(delta_v_vector) ==
    Libm(Rounding(velocity_uncertainty_scale), Rounding(norm(delta_v_vector)),
         NotCalled, NotCalled)
\* orbit line 28: v_new ** 2, reached when lines 23 did not raise
SpeedSquared(a, delta_v, ratio) ==
    IF ratio.s < 0 THEN NotCalled ELSE Rounding(v_new(FSqrt(ratio), delta_v))
SpeedRounding(a, delta_v, mu) ==
    IF a.s = 0 THEN NotCalled ELSE SpeedSquared(a, delta_v, FDiv(mu, a))
OrbitLibms(a, delta_v, mu) ==
    Libm(NotCalled, NotCalled, SpeedRounding(a, delta_v, mu), NotCalled)
\* risk line 26: collision_radius ** 2, reached when line 22 did not raise
RadiusRounding(cov_rel, collision_radius, build) ==
    IF LinAlgError(dgetrf(build, cov_rel)) THEN NotCalled ELSE Rounding(collision_radius)
ProbabilityLibms(cov_rel, collision_radius, build) ==
    Libm(NotCalled, NotCalled, NotCalled, RadiusRounding(cov_rel, collision_radius, build))
\* risk lines 44-51: line 51 passes the int 10, whose square Python computes
\* exactly without the C library
RiskLibms(delta_v_vector, initial_r) ==
    Libm(Rounding(velocity_uncertainty_scale), Rounding(norm(delta_v_vector)),
         SpeedRounding(initial_r, norm(delta_v_vector), mu_default), NotCalled)

(***************************************************************************)
(* Inputs of the calls.                                                    *)
(***************************************************************************)
Z3 == IntMat(<<<<0, 0, 0>>, <<0, 0, 0>>, <<0, 0, 0>>>>)
I3 == IntMat(<<<<1, 0, 0>>, <<0, 1, 0>>, <<0, 0, 1>>>>)
\* rank one
Ones3 == IntMat(<<<<1, 1, 1>>, <<1, 1, 1>>, <<1, 1, 1>>>>)
\* rank two, not symmetric
S123 == IntMat(<<<<1, 2, 3>>, <<4, 5, 6>>, <<7, 8, 9>>>>)
\* negative definite
NegI3 == IntMat(<<<<-1, 0, 0>>, <<0, -1, 0>>, <<0, 0, -1>>>>)
\* symmetric, positive semidefinite, rank two
PSD3 == IntMat(<<<<2, -3, 0>>, <<-3, 5, -1>>, <<0, -1, 2>>>>)
\* PSD3 less 0.1 in its first entry: a burn of 20 m/s along x makes it PSD3
Pos19 == <<<<FDiv(F(19), F(10)), F(-3), FZero>>, PSD3[2], PSD3[3]>>
\* rank one but for 0.1 in its first entry; its elimination rounds to rank two
Tenth3 == <<<<FDiv(F(11), F(10)), F(1), F(1)>>, Ones3[2], Ones3[3]>>
\* determinant -1, badly conditioned
Near3 == IntMat(<<<<4097, 4096, 0>>, <<4096, 4095, 0>>, <<0, 0, 1>>>>)
\* not symmetric
E12 == IntMat(<<<<0, 1, 0>>, <<0, 0, 0>>, <<0, 0, 0>>>>)
\* velocity variances of 2^60, which absorb the process noise
Big3 == <<<<FScale2(F(1), 60), FZero, FZero>>, <<FZero, FScale2(F(1), 60), FZero>>,
          <<FZero, FZero, FScale2(F(1), 60)>>>>

Cov6(pos, cross, lower, vel) == AssembleRows(pos, cross, lower, vel)

CrossBlocks == {<<Z3, Z3>>, <<E12, Transpose(E12)>>, <<E12, Z3>>}
Covariances ==
    {Cov6(p, c[1], c[2], v) : p \in {I3, S123}, c \in CrossBlocks, v \in {I3, Big3}}

\* a burn of 40.86721814327687 m/s along x: the square of its magnitude is
\* within 1/16 ulp of the midpoint of two doubles
NearTieBurn == <<FPack(1, <<30671, 269, 24066, 81>>, -46, FALSE), FZero, FZero>>

Directions ==
    {<<1, 0, 0>>, <<-1, 0, 0>>, <<0, 1, 0>>, <<1, 1, 0>>, <<1, 1, 1>>, <<0, 3, 4>>,
     <<1, 2, -2>>, <<-1, -2, 2>>}
DvVectors ==
    {Vec(k * u[1], k * u[2], k * u[3]) : k \in 0..MaxDv, u \in Directions}
        \cup {NearTieBurn}

SemiMajorAxes == {F(k) : k \in 0..MaxA} \cup {F(2000000), F(7000000)}
GravitationalParameters == {F(1), F(2), F(16), F(-1), mu_default}
DeltaVs ==
    {FScale2(F(k), -2) : k \in -MaxDeltaV..MaxDeltaV}
        \cup {FScale2(F(1), -60), F(500), F(-500)}

RelativePositions == {Vec(0, 0, 0), Vec(1, 0, 0), Vec(1, 2, 3)}
RelativeCovariances == {I3, Z3, Ones3, S123, NegI3, PSD3, Tenth3, Near3}
\* 0.05 squares to within 1/16 ulp of the midpoint of two doubles
CollisionRadii == {F(1), F(10), FDiv(F(1), F(20))}

RiskDirections == {<<1, 0, 0>>, <<-1, 0, 0>>, <<1, 2, -2>>}
RiskDvVectors ==
    {Vec(20 * k * u[1], 20 * k * u[2], 20 * k * u[3]) : k \in 0..MaxBurn, u \in RiskDirections}
        \cup {NearTieBurn}
RiskCovariances ==
    {Cov6(p, Z3, Z3, I3) : p \in {I3, Ones3, S123, PSD3, Pos19}}
RiskRadii == {F(7000000), F(1)}
Risks == {FZero, half}

NoValue == [none |-> TRUE]

(***************************************************************************)
(* The calls.  A caller builds the arguments (Invoke), the function runs   *)
(* to its return (Run), the caller drops the result (Return).  lapack and  *)
(* libm are the LAPACK build the call ran on and, for each ** 2 the call   *)
(* executes, whether the C library rounded it away from the nearest.       *)
(***************************************************************************)
Init ==
    /\ pc = "idle"
    /\ fn = "none"
    /\ args = NoValue
    /\ ret = NoValue
    /\ lapack = NoValue
    /\ libm = NoValue

Invoke_update_covariance_with_vector ==
    /\ pc = "idle"
    /\ \E c \in Covariances, dv \in DvVectors :
          args' = [cov_matrix |-> c, delta_v_vector |-> dv]
    /\ fn' = "update_covariance_with_vector"
    /\ pc' = "called"
    /\ ret' = NoValue
    /\ UNCHANGED <<lapack, libm>>

Run_update_covariance_with_vector ==
    /\ pc = "called"
    /\ fn = "update_covariance_with_vector"
    /\ \E m \in CovarianceLibms(args.delta_v_vector) :
          \E r \in {update_covariance_with_vector(args.cov_matrix, args.delta_v_vector, m)} :
             /\ ret' = [value |-> r.ret, fresh |-> r.fresh]
             /\ args' = [cov_matrix |-> r.cov_matrix, delta_v_vector |-> r.delta_v_vector]
             /\ libm' = m
    /\ pc' = "returned"
    /\ UNCHANGED <<fn, lapack>>

Invoke_calculate_delta_r ==
    /\ pc = "idle"
    /\ \E a \in SemiMajorAxes, dv \in DeltaVs, mu \in GravitationalParameters :
          args' = [a |-> a, delta_v |-> dv, mu |-> mu]
    /\ fn' = "calculate_delta_r"
    /\ pc' = "called"
    /\ ret' = NoValue
    /\ UNCHANGED <<lapack, libm>>

\* a, delta_v and mu are Python floats, which no statement can change
Run_calculate_delta_r ==
    /\ pc = "called"
    /\ fn = "calculate_delta_r"
    /\ \E m \in OrbitLibms(args.a, args.delta_v, args.mu) :
          /\ ret' = calculate_delta_r(args.a, args.delta_v, args.mu, m)
          /\ libm' = m
    /\ pc' = "returned"
    /\ UNCHANGED <<fn, args, lapack>>

Invoke_compute_collision_probability ==
    /\ pc = "idle"
    /\ \E d \in RelativePositions, p \in RelativeCovariances, r \in CollisionRadii :
          args' = [relative_position |-> d, cov_rel |-> p, collision_radius |-> r]
    /\ fn' = "compute_collision_probability"
    /\ pc' = "called"
    /\ ret' = NoValue
    /\ UNCHANGED <<lapack, libm>>

Run_compute_collision_probability ==
    /\ pc = "called"
    /\ fn = "compute_collision_probability"
    /\ \E build \in LapackBuilds :
       \E m \in ProbabilityLibms(args.cov_rel, args.collision_radius, build) :
       \E r \in {compute_collision_probability_call(
                     <<args.relative_position, args.cov_rel>>, Whole(1), Whole(2),
                     args.collision_radius, build, m)} :
          /\ ret' = r.ret
          /\ args' = [args EXCEPT !.relative_position = Read(r.memory, Whole(1)),
                                  !.cov_rel = Read(r.memory, Whole(2))]
          /\ lapack' = build
          /\ libm' = m
    /\ pc' = "returned"
    /\ UNCHANGED fn

Invoke_compute_risk ==
    /\ pc = "idle"
    /\ \E x \in Risks, dv \in RiskDvVectors, c \in RiskCovariances, r \in RiskRadii :
          args' = [original_risk |-> x, delta_v_vector |-> dv,
                   initial_cov_matrix |-> c, initial_r |-> r]
    /\ fn' = "compute_risk"
    /\ pc' = "called"
    /\ ret' = NoValue
    /\ UNCHANGED <<lapack, libm>>

Run_compute_risk ==
    /\ pc = "called"
    /\ fn = "compute_risk"
    /\ \E build \in LapackBuilds, m \in RiskLibms(args.delta_v_vector, args.initial_r) :
          \E r \in {compute_risk(args.original_risk, args.delta_v_vector,
                                  args.initial_cov_matrix, args.initial_r, build, m)} :
             /\ ret' = r.ret
             /\ args' = [args EXCEPT !.delta_v_vector = r.delta_v_vector,
                                     !.initial_cov_matrix = r.initial_cov_matrix]
             /\ lapack' = build
             /\ libm' = m
    /\ pc' = "returned"
    /\ UNCHANGED fn

Return ==
    /\ pc = "returned"
    /\ pc' = "idle"
    /\ fn' = "none"
    /\ args' = NoValue
    /\ ret' = NoValue
    /\ lapack' = NoValue
    /\ libm' = NoValue

Next ==
    \/ Invoke_update_covariance_with_vector
    \/ Run_update_covariance_with_vector
    \/ Invoke_calculate_delta_r
    \/ Run_calculate_delta_r
    \/ Invoke_compute_collision_probability
    \/ Run_compute_collision_probability
    \/ Invoke_compute_risk
    \/ Run_compute_risk
    \/ Return

Spec == Init /\ [][Next]_vars

Returned(f) == pc = "returned" /\ fn = f

(***************************************************************************)
(* Properties.                                                             *)
(***************************************************************************)
UCV == "update_covariance_with_vector"

IsSymmetric6(m) == \A i \in 1..6 : \A j \in 1..6 : m[i][j] = m[j][i]

ZeroVec == Vec(0, 0, 0)
\* the matrix a call of update_covariance_with_vector returns
updated_cov_matrix(cov_matrix, delta_v_vector, clib) ==
    update_covariance_with_vector(cov_matrix, delta_v_vector, clib).ret

\* w = t * u for some t > 0: the same burn direction
SameDirection(u, w) ==
    /\ FMul(u[1], w[2]) = FMul(u[2], w[1])
    /\ FMul(u[1], w[3]) = FMul(u[3], w[1])
    /\ FMul(u[2], w[3]) = FMul(u[3], w[2])
    /\ FLt(FZero, Dot(u, w))

\* |x - y| <= 2^-48 * scale
Near(x, y, scale) == FLe(FAbs(FSub(x, y)), FScale2(scale, -48))

\* signed integers of any size, for the exact determinant of a matrix of
\* doubles scaled by a power of two
SInt(x, e0) == [s |-> x.s, n |-> IF x.s = 0 THEN <<>> ELSE BShl(x.m, x.e - e0)]
SNeg(a) == [s |-> -a.s, n |-> a.n]
SMul(a, b) == [s |-> a.s * b.s, n |-> IF a.s * b.s = 0 THEN <<>> ELSE BMul(a.n, b.n)]
SDiff(a, b, c) ==
    IF c = 0 THEN [s |-> 0, n |-> <<>>]
    ELSE IF c > 0 THEN [s |-> a.s, n |-> BSub(a.n, b.n)]
    ELSE [s |-> b.s, n |-> BSub(b.n, a.n)]
SAdd(a, b) ==
    IF a.s = 0 THEN b ELSE IF b.s = 0 THEN a
    ELSE IF a.s = b.s THEN [s |-> a.s, n |-> BAdd(a.n, b.n)]
    ELSE SDiff(a, b, BCmp(a.n, b.n))
SMinor(a, b, c, d) == SAdd(SMul(a, d), SNeg(SMul(b, c)))
SDet3(m) ==
    SAdd(SAdd(SMul(m[1][1], SMinor(m[2][2], m[2][3], m[3][2], m[3][3])),
              SNeg(SMul(m[1][2], SMinor(m[2][1], m[2][3], m[3][1], m[3][3])))),
         SMul(m[1][3], SMinor(m[2][1], m[2][2], m[3][1], m[3][2])))
Exponents(m) == {m[i][j].e : i \in 1..3, j \in 1..3}
LeastExponent(m) == CHOOSE e \in Exponents(m) : \A f \in Exponents(m) : e <= f
SRow(r, e0) == <<SInt(r[1], e0), SInt(r[2], e0), SInt(r[3], e0)>>
SMat(m, e0) == <<SRow(m[1], e0), SRow(m[2], e0), SRow(m[3], e0)>>
\* the determinant of m is exactly zero
IsSingular(m) == SDet3(SMat(m, LeastExponent(m))).s = 0

\* the probability can be the double 1.0: it is the 1.0 of the fallback, or
\* a cdf at a point above the noncentrality (at or below it the cdf of a
\* noncentral chi-square is less than 1/2)
MayBeOne(p) == p.kind = "one" \/ (p.kind = "cdf" /\ FLt(p.nc, p.x))

\* the returned product can be at most bound: 1.0 * times, or p * times
\* with p in [0, 1] and times >= 0; a nan compares with nothing
RiskAtMost(risk, bound) ==
    /\ risk.prob.kind \in {"one", "cdf"}
    /\ FLe(FZero, risk.times)
    /\ FLe(risk.times, bound)

\* the returned product can be original_risk itself
RiskIsOriginal(risk) ==
    \/ MayBeOne(risk.prob)
    \/ risk.prob.kind = "cdf" /\ risk.times.s = 0

\* the propagated position block compute_risk hands on as cov_rel
PropagatedPosition ==
    BlockPos(updated_cov_matrix(args.initial_cov_matrix, args.delta_v_vector, libm))

\* C1: the risk compute_risk returns is at most original_risk, and it is
\* original_risk itself (the 1.0 fallback) whenever the position block of
\* the propagated covariance is singular.
C1_RiskBound ==
    Returned("compute_risk") =>
        /\ RiskAtMost(ret, args.original_risk)
        /\ IsSingular(PropagatedPosition) => RiskIsOriginal(ret)

\* C2: compute_collision_probability returns exactly 1.0 for every singular
\* cov_rel, whatever the relative position and the collision radius.
C2_SingularFallback ==
    (Returned("compute_collision_probability") /\ IsSingular(args.cov_rel)) => MayBeOne(ret)

\* C3: a symmetric covariance is updated to a symmetric covariance.
C3_Symmetry ==
    (Returned(UCV) /\ IsSymmetric6(args.cov_matrix)) => IsSymmetric6(ret.value)

C3_Witness ==
    /\ Returned(UCV)
    /\ IsSymmetric6(args.cov_matrix)
    /\ BlockCross(args.cov_matrix) # Transpose(BlockCross(args.cov_matrix))
    /\ \A i \in 1..3 : args.delta_v_vector[i].s # 0
    /\ args.delta_v_vector[1] # args.delta_v_vector[2]
    /\ ret.value # args.cov_matrix

\* C4 as claimed: a zero burn returns any 6x6 matrix, symmetric or not, with
\* all 36 entries unchanged.
C4_ZeroBurnAnyMatrix ==
    (Returned(UCV) /\ args.delta_v_vector = ZeroVec) => ret.value = args.cov_matrix

\* C4 as amended: a zero burn returns the matrix unchanged when its
\* lower-left block is the transpose of its upper-right block.
C4_ZeroBurnIdentity ==
    (/\ Returned(UCV)
     /\ args.delta_v_vector = ZeroVec
     /\ BlockLower(args.cov_matrix) = Transpose(BlockCross(args.cov_matrix)))
    => ret.value = args.cov_matrix

C4_Witness ==
    /\ Returned(UCV)
    /\ args.delta_v_vector = ZeroVec
    /\ BlockLower(args.cov_matrix) = Transpose(BlockCross(args.cov_matrix))
    /\ BlockCross(args.cov_matrix) # BlockLower(args.cov_matrix)
    /\ ~IsSymmetric6(args.cov_matrix)
    /\ ret.value = args.cov_matrix

\* a returned calculate_delta_r call on a > 0; mu is then positive
OrbitReturned == Returned("calculate_delta_r") /\ ret.kind = "ok" /\ args.a.s > 0
\* the circular speed and the post-burn energy of the returned call
CallSpeed == FSqrt(FDiv(args.mu, args.a))
CallEnergy == E_new(FAdd(CallSpeed, args.delta_v), args.mu, args.a, libm)
\* 2^-40 of the circular speed
SpeedMargin == FScale2(CallSpeed, -40)

\* C5 as claimed: every delta_v > 0 gives delta_r > 0, and every delta_v < 0
\* that leaves the energy negative gives delta_r < 0.
C5_RadiusSign ==
    OrbitReturned =>
        /\ FLt(FZero, args.delta_v) => FLt(FZero, ret.delta_r)
        /\ (FLt(args.delta_v, FZero) /\ FLt(CallEnergy, FZero)) => FLt(ret.delta_r, FZero)

\* C5 as amended: while the post-burn energy is negative, a delta_v of at
\* least 2^-40 v gives delta_r > 0, a delta_v between -(2 - 2^-40) v and
\* -2^-40 v gives delta_r < 0, and a delta_v of -(2 + 2^-40) v or below
\* reverses the velocity without lowering the speed and gives delta_r > 0.
C5_RadiusSignBoundOrbit ==
    (OrbitReturned /\ FLt(CallEnergy, FZero)) =>
        /\ FLe(SpeedMargin, args.delta_v) => FLt(FZero, ret.delta_r)
        /\ (/\ FLe(args.delta_v, FNeg(SpeedMargin))
            /\ FLe(FNeg(FSub(FScale2(CallSpeed, 1), SpeedMargin)), args.delta_v))
               => FLt(ret.delta_r, FZero)
        /\ FLe(args.delta_v, FNeg(FAdd(FScale2(CallSpeed, 1), SpeedMargin)))
               => FLt(FZero, ret.delta_r)

C5_Witness ==
    /\ OrbitReturned
    /\ FLt(CallEnergy, FZero)
    /\ FLe(args.delta_v, FNeg(FAdd(FScale2(CallSpeed, 1), SpeedMargin)))
    /\ FLt(FZero, ret.delta_r)

\* the velocity-block diagonal entry i of the update for the burn dv
VelDiag(cov, dv, i, clib) == updated_cov_matrix(cov, dv, clib)[i + 3][i + 3]
\* the roundings a second call, for the burn dv, can meet in the C library
\* of the call that returned: 0.05 ** 2 is the same call of pow in both
SecondCalls(dv) == {clib \in CovarianceLibms(dv) : clib.scale = libm.scale}
\* 0.05^2 * dv[i]^2
NoiseAlong(dv, i) == FDiv(FMul(dv[i], dv[i]), F(400))
\* the noise along axis i grows from dv1 to dv2 by at least 2^-40 of the
\* entry p it is added to and of itself
Grows(p, dv1, dv2, i) ==
    FLe(FScale2(FAdd(FAbs(p), NoiseAlong(dv2, i)), -40),
        FSub(NoiseAlong(dv2, i), NoiseAlong(dv1, i)))
Larger(dv1, dv2) == SameDirection(dv1, dv2) /\ FLt(Dot(dv1, dv1), Dot(dv2, dv2))

\* C6 as claimed: a larger burn in the same direction makes every diagonal
\* entry of the velocity block strictly larger.
C6_ScaleMonotonicity ==
    Returned(UCV) =>
        \A dv2 \in DvVectors :
            Larger(args.delta_v_vector, dv2)
            => \A i \in 1..3, clib \in SecondCalls(dv2) :
                  FLt(ret.value[i + 3][i + 3], VelDiag(args.cov_matrix, dv2, i, clib))

\* C6 as amended: a larger burn in the same direction makes the diagonal
\* entry of the velocity block strictly larger on every axis along which the
\* burn has a component and the noise grows by at least 2^-40 of the entry
\* and of itself, and leaves it unchanged on the axes along which the burn
\* has no component.
C6_ScaleMonotonicityAlongBurn ==
    Returned(UCV) =>
        \A dv2 \in DvVectors :
            Larger(args.delta_v_vector, dv2)
            => \A i \in 1..3, clib \in SecondCalls(dv2) :
                  /\ args.delta_v_vector[i].s = 0
                        => ret.value[i + 3][i + 3] = VelDiag(args.cov_matrix, dv2, i, clib)
                  /\ (/\ args.delta_v_vector[i].s # 0
                      /\ Grows(args.cov_matrix[i + 3][i + 3], args.delta_v_vector, dv2, i))
                        => FLt(ret.value[i + 3][i + 3],
                               VelDiag(args.cov_matrix, dv2, i, clib))

C6_Witness ==
    /\ Returned(UCV)
    /\ args.delta_v_vector[1].s # 0
    /\ args.delta_v_vector[2].s # 0
    /\ args.delta_v_vector[3].s = 0
    /\ \E dv2 \in DvVectors :
          /\ Larger(args.delta_v_vector, dv2)
          /\ Grows(args.cov_matrix[4][4], args.delta_v_vector, dv2, 1)
          /\ \E clib \in SecondCalls(dv2) :
                /\ FLt(ret.value[4][4], VelDiag(args.cov_matrix, dv2, 1, clib))
                /\ ret.value[6][6] = VelDiag(args.cov_matrix, dv2, 3, clib)

\* a returned calculate_delta_r call with delta_v = 0 on a > 0 and mu > 0
ZeroBurnReturned ==
    /\ Returned("calculate_delta_r")
    /\ args.delta_v.s = 0
    /\ args.a.s > 0
    /\ args.mu.s > 0

\* C7 as claimed: calculate_delta_r(a, 0) returns delta_r = 0 and a_new = a.
C7_EnergyRoundTrip ==
    ZeroBurnReturned =>
        /\ ret.kind = "ok"
        /\ ret.delta_r.s = 0
        /\ ret.a_new = args.a

\* C7 as amended: calculate_delta_r(a, 0) returns a_new within 2^-48 a of a
\* and delta_r = a_new - a exactly.
C7_EnergyRoundTripRounded ==
    ZeroBurnReturned =>
        /\ ret.kind = "ok"
        /\ Near(ret.a_new, args.a, args.a)
        /\ ret.a_new = FAdd(args.a, ret.delta_r)

C7_Witness ==
    /\ ZeroBurnReturned
    /\ ret.kind = "ok"
    /\ ret.delta_r.s # 0
    /\ args.mu # args.a
    /\ Near(ret.a_new, args.a, args.a)

\* C8: a call leaves the arrays the caller passed as they were in the
\* caller's memory, and update_covariance_with_vector returns a matrix in a
\* buffer the caller did not hold; this holds of the call compute_risk
\* makes as well.
C8_ArgumentsUnchanged ==
    [][(pc = "called" /\ pc' = "returned") =>
          /\ args' = args
          /\ fn \in {UCV, "compute_risk"} => ret'.fresh]_vars

C8_Witness ==
    /\ Returned(UCV)
    /\ args.delta_v_vector # ZeroVec
    /\ ret.value # args.cov_matrix
    /\ ret.fresh

\* output velocity block minus input velocity block, in doubles
VelocityPerturbation == MSub(BlockVel(ret.value), BlockVel(args.cov_matrix))
\* 0.05^2 * dv[i] * dv[j], as Python evaluates it
NoiseClaimed(dv, i, j) == FMul(FMul(Pow2(libm.scale, velocity_uncertainty_scale), dv[i]), dv[j])
\* dv[i] * dv[j] / 400
NoiseEntry(dv, i, j) == FDiv(FMul(dv[i], dv[j]), F(400))

\* C9 as claimed: with D the change of the velocity block, the position block
\* and the upper-right block each grow by 0.1 * D, the lower-left block is
\* the transpose of the new upper-right block, and D is symmetric with
\* D[i][j] = 0.05^2 * dv[i] * dv[j].
C9_BlockUpdateRule ==
    Returned(UCV) =>
        /\ BlockPos(ret.value) =
              MAdd(BlockPos(args.cov_matrix), MScale(coupling_factor, VelocityPerturbation))
        /\ BlockCross(ret.value) =
              MAdd(BlockCross(args.cov_matrix), MScale(coupling_factor, VelocityPerturbation))
        /\ BlockLower(ret.value) = Transpose(BlockCross(ret.value))
        /\ VelocityPerturbation = Transpose(VelocityPerturbation)
        /\ \A i \in 1..3 : \A j \in 1..3 :
              VelocityPerturbation[i][j] = NoiseClaimed(args.delta_v_vector, i, j)

\* the entry out is the entry in plus q, up to 2^-45 of |in| + |q|
GrownBy(out, in, q) ==
    FLe(FAbs(FSub(out, FAdd(in, q))), FScale2(FAdd(FAbs(in), FAbs(q)), -45))

\* C9 as amended: with Q[i][j] = 0.05^2 * dv[i] * dv[j], every entry of the
\* velocity block grows by Q[i][j] and every entry of the position block and
\* of the upper-right block by 0.1 * Q[i][j], each up to a rounding error of
\* 2^-45 of the entry and the growth, and the lower-left block is exactly
\* the transpose of the new upper-right block.
C9_BlockUpdateRounded ==
    Returned(UCV) =>
        /\ \A i \in 1..3 : \A j \in 1..3 :
              /\ GrownBy(ret.value[i + 3][j + 3], args.cov_matrix[i + 3][j + 3],
                         NoiseEntry(args.delta_v_vector, i, j))
              /\ GrownBy(ret.value[i][j], args.cov_matrix[i][j],
                         FDiv(NoiseEntry(args.delta_v_vector, i, j), F(10)))
              /\ GrownBy(ret.value[i][j + 3], args.cov_matrix[i][j + 3],
                         FDiv(NoiseEntry(args.delta_v_vector, i, j), F(10)))
        /\ BlockLower(ret.value) = Transpose(BlockCross(ret.value))

C9_Witness ==
    /\ Returned(UCV)
    /\ \A i \in 1..3 : args.delta_v_vector[i].s # 0
    /\ args.delta_v_vector[1].s < 0
    /\ ~IsSymmetric6(args.cov_matrix)
    /\ VelocityPerturbation[1][1].s = 0
    /\ ret.value[1][1] # args.cov_matrix[1][1]

\* C10: compute_risk returns the same for a burn and for the opposite burn.
C10_SignInsensitive ==
    Returned("compute_risk") =>
        ret = compute_risk(args.original_risk, VNeg(args.delta_v_vector),
                           args.initial_cov_matrix, args.initial_r, lapack, libm).ret

C10_Witness ==
    /\ Returned("compute_risk")
    /\ args.delta_v_vector # ZeroVec
    /\ ret.prob.kind = "cdf"
    /\ FLt(FZero, ret.prob.nc)
    /\ FLt(FZero, args.original_risk)

====
